---------------------------- MODULE Spec2Model ----------------------------
(***************************************************************************)
(* Provisioning scripts of the manufacturing analytics platform, modelled  *)
(* against the BI platform's metadata tables:                              *)
(*   - create-default-dashboard.py       (the ORM script, in-process)      *)
(*   - automated-dashboard-creator.py    (the REST script)                 *)
(*   - superset_config.py                (the startup hook)                *)
(* The platform's tables are sequences of rows; a row's id is its position *)
(* (an autoincrement primary key, rows are never deleted).                 *)
(***************************************************************************)
EXTENDS Integers, Sequences, FiniteSets, TLC

VARIABLES
    databases,   \* platform table of database connections
    tables,      \* platform table of datasets (SqlaTable)
    slices,      \* platform table of charts (Slice)
    dashboards,  \* platform table of dashboards
    seed,        \* the rows the platform held before any script ran (history)
    fault_budget,\* failures the environment may still produce (set by Init)
    o_pc,        \* ORM script: control point of each invocation
    o_budget,    \* ORM script: runs each process may still start
    o_db,        \* ORM script: manufacturing_db.id
    o_tables,    \* ORM script: tables[view_name].id  (None while unset)
    o_charts,    \* ORM script: ids of the charts list
    o_i,         \* ORM script: loop index over views / chart number
    o_session,   \* ORM script: objects added to db.session and not committed
    o_committed, \* ORM script: rows this run has committed (history)
    o_runs,      \* ORM script: outcome of each finished run (history)
    unique_datasets, \* platform: a second dataset of a registered view is refused
    down,        \* platform: the HTTP service does not answer
    r_pc,        \* REST script: control point
    r_budget,    \* REST script: runs that may still start
    r_max_retries, \* wait_for_superset: max_retries
    r_ready,     \* wait_for_superset: the value returned
    r_headers,   \* self.session.headers set by authenticate
    r_database_id, \* create_all_dashboards: database_id
    r_fn,        \* which of the four dashboard functions is running
    r_i,         \* loop index: health attempt, dataset view, chart
    r_datasets,  \* dashboard function: datasets (view -> id)
    r_charts,    \* dashboard function: charts
    r_dashboards,\* create_all_dashboards: dashboards (key -> id or None)
    r_log,       \* requests sent in the current run, in order (history)
    r_resp,      \* the response to the last request (history)
    r_ret,       \* the value the last REST step returned (history)
    r_runs,      \* REST script: outcome of each finished run (history)
    r_file,      \* /tmp/dashboard_ids.json
    b_pc,        \* startup hook: control point of each booting process
    b_budget,    \* startup hook: boots each process may still start
    b_env,       \* startup hook: os.environ of the boot
    b_session,   \* startup hook: objects added to db.session and not committed
    b_runs       \* startup hook: outcome of each finished boot (history)

ormVars == <<o_pc, o_budget, o_db, o_tables, o_charts, o_i, o_session,
             o_committed, o_runs>>
platformVars == <<databases, tables, slices, dashboards>>
envVars == <<unique_datasets, down>>
bootVars == <<b_pc, b_budget, b_env, b_session, b_runs>>
restVars == <<r_pc, r_budget, r_max_retries, r_ready, r_headers,
              r_database_id, r_fn, r_i, r_datasets, r_charts, r_dashboards,
              r_log, r_resp, r_ret, r_runs, r_file>>

-----------------------------------------------------------------------------
(* Bounds of the model *)

\* rows of the three metadata tables that may exist before the first run
MaxSeed == 2
\* exceptions the metadata database may raise in one behaviour of the ORM script
OrmMaxFaults == 2
\* unexpected responses and outages of the HTTP service in one behaviour of
\* the REST script
RestMaxFaults == 1
\* sequential runs of the ORM script
OrmMaxRuns == 2
\* sequential runs of the REST script in SpecRestTwice
RestMaxRuns == 2
\* health attempts wait_for_superset is called with in SpecWait
MaxWaitRetries == 4
\* sequential boots of the platform, and exceptions the metadata database
\* may raise during them
MaxBoots == 3
BootMaxFaults == 1
PairMaxFaults == 1

-----------------------------------------------------------------------------
(* Values *)

None == 0
Raised == -1

Procs == {1, 2}

MfgDbName == "Manufacturing TimescaleDB"
OtherDbName == "examples"
OtherDbId == 1
SeedMfgDbId == 2

\* create-default-dashboard.py: views
views ==
    << "dashboard_production_overview",
       "dashboard_equipment_performance",
       "dashboard_realtime_kpis" >>

\* create-default-dashboard.py: the three create_or_get_slice calls, in order
OrmCharts ==
    << [name |-> "Production Trend - 24 Hours", viz_type |-> "line",
        view |-> "dashboard_production_overview"],
       [name |-> "Current OEE", viz_type |-> "big_number_total",
        view |-> "dashboard_realtime_kpis"],
       [name |-> "Equipment Performance", viz_type |-> "table",
        view |-> "dashboard_equipment_performance"] >>

dashboard_title == "Manufacturing Overview"

Range(s) == {s[i] : i \in DOMAIN s}

-----------------------------------------------------------------------------
(* ORM queries: session.query(M).filter_by(...).first()                    *)
(* The query has no ORDER BY: with several matching rows the row returned  *)
(* is any of them.  The operators give the ids of the matching rows.       *)

\* a lookup that takes any connection, whatever its name
QueryDatabaseAny(name) == DOMAIN databases

\* Database rows of that database_name

QueryDatabase(name) ==
    {i \in DOMAIN databases : databases[i].database_name = name}

\* a dataset lookup by table name alone
QuerySqlaTableNoDb(view_name, database_id) ==
    {i \in DOMAIN tables : tables[i].table_name = view_name}

\* SqlaTable rows of that table_name and database_id
QuerySqlaTable(view_name, database_id) ==
    {i \in DOMAIN tables : /\ tables[i].table_name = view_name
                           /\ tables[i].database_id = database_id}

\* a chart lookup that finds nothing
QuerySliceNever(name) == {}

\* Slice rows of that slice_name
QuerySlice(name) ==
    {i \in DOMAIN slices : slices[i].slice_name = name}

\* a dashboard lookup that finds nothing
QueryDashboardNever(title) == {}

\* Dashboard rows of that dashboard_title
QueryDashboard(title) ==
    {i \in DOMAIN dashboards : dashboards[i].dashboard_title = title}

-----------------------------------------------------------------------------
(* Rows the ORM script builds *)

NewSqlaTable(view_name, database_id) ==
    [table_name |-> view_name, database_id |-> database_id]

NewSlice(n, datasource_id) ==
    [slice_name |-> OrmCharts[n].name,
     viz_type |-> OrmCharts[n].viz_type,
     datasource_type |-> "table",
     datasource_id |-> datasource_id]

\* the layout tree of create_manufacturing_dashboard, keyed by node id
OrmPosition(charts) ==
    [k \in {"ROOT_ID", "GRID_ID", "ROW-1", "ROW-2",
            "CHART-prod", "CHART-oee", "CHART-equipment"} |->
        CASE k = "ROOT_ID" ->
               [type |-> "ROOT", id |-> k, children |-> <<"GRID_ID">>]
          [] k = "GRID_ID" ->
               [type |-> "GRID", id |-> k, children |-> <<"ROW-1", "ROW-2">>]
          [] k = "ROW-1" ->
               [type |-> "ROW", id |-> k,
                children |-> <<"CHART-prod", "CHART-oee">>]
          [] k = "ROW-2" ->
               [type |-> "ROW", id |-> k, children |-> <<"CHART-equipment">>]
          [] k = "CHART-prod" ->
               [type |-> "CHART", id |-> k, children |-> <<>>,
                meta |-> [width |-> 8, height |-> 50, chartId |-> charts[1]]]
          [] k = "CHART-oee" ->
               [type |-> "CHART", id |-> k, children |-> <<>>,
                meta |-> [width |-> 4, height |-> 50, chartId |-> charts[2]]]
          [] k = "CHART-equipment" ->
               [type |-> "CHART", id |-> k, children |-> <<>>,
                meta |-> [width |-> 12, height |-> 50, chartId |-> charts[3]]]]

\* a dashboard row with the layout but no chart attached
NewDashboardUnattached(charts) ==
    [dashboard_title |-> dashboard_title,
     slug |-> "manufacturing-overview",
     slices |-> <<>>,
     position_json |-> OrmPosition(charts),
     published |-> TRUE]

\* lines 209-215: Dashboard(dashboard_title, slug, slices, position_json,
\* published)
NewDashboard(charts) ==
    [dashboard_title |-> dashboard_title,
     slug |-> "manufacturing-overview",
     slices |-> charts,
     position_json |-> OrmPosition(charts),
     published |-> TRUE]

-----------------------------------------------------------------------------
(* The ORM script: create_manufacturing_dashboard under __main__           *)

NoTables == [v \in Range(views) |-> None]

\* __main__: the call returned `ret`; a truthy id is printed as the success
OrmFinish(p, ret) ==
    /\ o_pc' = [o_pc EXCEPT ![p] = "idle"]
    /\ o_runs' = [o_runs EXCEPT ![p] =
                    Append(@, [ret |-> ret, reported |-> (ret # None),
                               rollbacks |-> 0,
                               committed |-> o_committed[p]])]

\* python create-default-dashboard.py
OrmRun(p) ==
    /\ o_pc[p] = "idle"
    /\ o_budget[p] > 0
    /\ o_budget' = [o_budget EXCEPT ![p] = @ - 1]
    /\ o_pc' = [o_pc EXCEPT ![p] = "lookup_db"]
    /\ o_db' = [o_db EXCEPT ![p] = None]
    /\ o_tables' = [o_tables EXCEPT ![p] = NoTables]
    /\ o_charts' = [o_charts EXCEPT ![p] = <<>>]
    /\ o_i' = [o_i EXCEPT ![p] = 1]
    /\ o_committed' = [o_committed EXCEPT ![p] = {}]
    /\ UNCHANGED <<platformVars, seed, fault_budget, o_session, o_runs>>
    /\ UNCHANGED <<envVars, restVars, bootVars>>

\* lines 19-25: look the database connection up, return None when absent
OrmLookupDb(p) ==
    /\ o_pc[p] = "lookup_db"
    /\ IF QueryDatabase(MfgDbName) = {}
         THEN /\ OrmFinish(p, None)
              /\ UNCHANGED o_db
         ELSE /\ \E d \in QueryDatabase(MfgDbName) :
                    o_db' = [o_db EXCEPT ![p] = d]
              /\ o_pc' = [o_pc EXCEPT ![p] = "lookup_table"]
              /\ UNCHANGED o_runs
    /\ UNCHANGED <<platformVars, seed, fault_budget, o_budget, o_tables, o_charts,
                   o_i, o_session, o_committed>>
    /\ UNCHANGED <<envVars, restVars, bootVars>>

\* the loop over views is done: go on to the charts
OrmAfterView(p, i) ==
    IF i < Len(views)
      THEN /\ o_i' = [o_i EXCEPT ![p] = i + 1]
           /\ o_pc' = [o_pc EXCEPT ![p] = "lookup_table"]
      ELSE /\ o_i' = [o_i EXCEPT ![p] = 1]
           /\ o_pc' = [o_pc EXCEPT ![p] = "lookup_slice"]

\* lines 36-41, 49: query the dataset of views[i]
OrmLookupTable(p) ==
    /\ o_pc[p] = "lookup_table"
    /\ LET view_name == views[o_i[p]]
           found == QuerySqlaTable(view_name, o_db[p])
       IN  IF found = {}
             THEN /\ o_pc' = [o_pc EXCEPT ![p] = "commit_table"]
                  /\ UNCHANGED <<o_tables, o_i>>
             ELSE /\ \E t \in found :
                        o_tables' = [o_tables EXCEPT ![p][view_name] = t]
                  /\ OrmAfterView(p, o_i[p])
    /\ UNCHANGED <<platformVars, seed, fault_budget, o_budget, o_db, o_charts,
                   o_session, o_committed, o_runs>>
    /\ UNCHANGED <<envVars, restVars, bootVars>>

\* lines 42-49: add the dataset and commit
OrmCommitTable(p) ==
    /\ o_pc[p] = "commit_table"
    /\ LET view_name == views[o_i[p]]
           row == NewSqlaTable(view_name, o_db[p])
           id == Len(tables) + 1
       IN  \/ /\ tables' = Append(tables, row)
              /\ o_tables' = [o_tables EXCEPT ![p][view_name] = id]
              /\ o_committed' = [o_committed EXCEPT ![p] =
                                    @ \cup {<<"table", id>>}]
              /\ OrmAfterView(p, o_i[p])
              /\ UNCHANGED <<fault_budget, o_session>>
           \/ /\ fault_budget > 0
              /\ fault_budget' = fault_budget - 1
              /\ o_session' = [o_session EXCEPT ![p] =
                                  Append(@, <<"table", row>>)]
              /\ o_pc' = [o_pc EXCEPT ![p] = "main_except"]
              /\ UNCHANGED <<tables, o_tables, o_committed, o_i>>
    /\ UNCHANGED <<databases, slices, dashboards, seed, o_budget, o_db,
                   o_charts, o_runs>>
    /\ UNCHANGED <<envVars, restVars, bootVars>>

\* the three create_or_get_slice calls are done: go on to the dashboard
OrmAfterChart(p, n) ==
    IF n < Len(OrmCharts)
      THEN /\ o_i' = [o_i EXCEPT ![p] = n + 1]
           /\ o_pc' = [o_pc EXCEPT ![p] = "lookup_slice"]
      ELSE /\ o_i' = [o_i EXCEPT ![p] = 1]
           /\ o_pc' = [o_pc EXCEPT ![p] = "lookup_dashboard"]

\* create_or_get_slice, lines 228-233: query the chart by name
OrmLookupSlice(p) ==
    /\ o_pc[p] = "lookup_slice"
    /\ LET found == QuerySlice(OrmCharts[o_i[p]].name)
       IN  IF found = {}
             THEN /\ o_pc' = [o_pc EXCEPT ![p] = "commit_slice"]
                  /\ UNCHANGED <<o_charts, o_i>>
             ELSE /\ \E c \in found :
                        o_charts' = [o_charts EXCEPT ![p] = Append(@, c)]
                  /\ OrmAfterChart(p, o_i[p])
    /\ UNCHANGED <<platformVars, seed, fault_budget, o_budget, o_db, o_tables,
                   o_session, o_committed, o_runs>>
    /\ UNCHANGED <<envVars, restVars, bootVars>>

\* create_or_get_slice, lines 235-245: add the chart and commit
OrmCommitSlice(p) ==
    /\ o_pc[p] = "commit_slice"
    /\ LET n == o_i[p]
           row == NewSlice(n, o_tables[p][OrmCharts[n].view])
           id == Len(slices) + 1
       IN  \/ /\ slices' = Append(slices, row)
              /\ o_charts' = [o_charts EXCEPT ![p] = Append(@, id)]
              /\ o_committed' = [o_committed EXCEPT ![p] =
                                    @ \cup {<<"slice", id>>}]
              /\ OrmAfterChart(p, n)
              /\ UNCHANGED <<fault_budget, o_session>>
           \/ /\ fault_budget > 0
              /\ fault_budget' = fault_budget - 1
              /\ o_session' = [o_session EXCEPT ![p] =
                                  Append(@, <<"slice", row>>)]
              /\ o_pc' = [o_pc EXCEPT ![p] = "main_except"]
              /\ UNCHANGED <<slices, o_charts, o_committed, o_i>>
    /\ UNCHANGED <<databases, tables, dashboards, seed, o_budget, o_db,
                   o_tables, o_runs>>
    /\ UNCHANGED <<envVars, restVars, bootVars>>

\* lines 146-153: an existing dashboard of that title is returned as it is
OrmLookupDashboard(p) ==
    /\ o_pc[p] = "lookup_dashboard"
    /\ LET found == QueryDashboard(dashboard_title)
       IN  IF found = {}
             THEN /\ o_pc' = [o_pc EXCEPT ![p] = "commit_dashboard"]
                  /\ UNCHANGED o_runs
             ELSE \E d \in found : OrmFinish(p, d)
    /\ UNCHANGED <<platformVars, seed, fault_budget, o_budget, o_db, o_tables,
                   o_charts, o_i, o_session, o_committed>>
    /\ UNCHANGED <<envVars, restVars, bootVars>>

\* lines 156-224: build the layout, add the dashboard, commit, return its id
OrmCommitDashboard(p) ==
    /\ o_pc[p] = "commit_dashboard"
    /\ LET row == NewDashboard(o_charts[p])
           id == Len(dashboards) + 1
       IN  \/ /\ dashboards' = Append(dashboards, row)
              /\ o_pc' = [o_pc EXCEPT ![p] = "idle"]
              /\ o_runs' = [o_runs EXCEPT ![p] =
                    Append(@, [ret |-> id, reported |-> (id # None),
                               rollbacks |-> 0,
                               committed |-> o_committed[p]
                                               \cup {<<"dashboard", id>>}])]
              /\ o_committed' = [o_committed EXCEPT ![p] =
                                    @ \cup {<<"dashboard", id>>}]
              /\ UNCHANGED <<fault_budget, o_session>>
           \/ /\ fault_budget > 0
              /\ fault_budget' = fault_budget - 1
              /\ o_session' = [o_session EXCEPT ![p] =
                                  Append(@, <<"dashboard", row>>)]
              /\ o_pc' = [o_pc EXCEPT ![p] = "main_except"]
              /\ UNCHANGED <<dashboards, o_committed, o_runs>>
    /\ UNCHANGED <<databases, tables, slices, seed, o_budget, o_db, o_tables,
                   o_charts, o_i>>
    /\ UNCHANGED <<envVars, restVars, bootVars>>

\* a query raises (the metadata database is unreachable)
OrmQueryRaises(p) ==
    /\ o_pc[p] \in {"lookup_db", "lookup_table", "lookup_slice",
                    "lookup_dashboard"}
    /\ fault_budget > 0
    /\ fault_budget' = fault_budget - 1
    /\ o_pc' = [o_pc EXCEPT ![p] = "main_except"]
    /\ UNCHANGED <<platformVars, seed, o_budget, o_db, o_tables, o_charts,
                   o_i, o_session, o_committed, o_runs>>
    /\ UNCHANGED <<envVars, restVars, bootVars>>

\* a rollback that also undoes what the run has committed
SessionRollbackAll(p, tbl, name) ==
    SubSeq(tbl, 1, Len(tbl) - Cardinality({c \in o_committed[p] : c[1] = name}))

\* db.session.rollback(): the objects added and not committed are dropped;
\* committed rows are not touched
SessionRollback(p, tbl, name) == tbl

\* __main__, lines 252-256: the except clause
OrmMainExcept(p) ==
    /\ o_pc[p] = "main_except"
    /\ o_session' = [o_session EXCEPT ![p] = <<>>]
    /\ tables' = SessionRollback(p, tables, "table")
    /\ slices' = SessionRollback(p, slices, "slice")
    /\ dashboards' = SessionRollback(p, dashboards, "dashboard")
    /\ o_pc' = [o_pc EXCEPT ![p] = "idle"]
    /\ o_runs' = [o_runs EXCEPT ![p] =
                    Append(@, [ret |-> Raised, reported |-> FALSE,
                               rollbacks |-> 1,
                               committed |-> o_committed[p]])]
    /\ UNCHANGED <<databases, seed, fault_budget, o_budget, o_db, o_tables,
                   o_charts, o_i, o_committed>>
    /\ UNCHANGED <<envVars, restVars, bootVars>>

OrmStep(p) ==
    \/ OrmRun(p)
    \/ OrmLookupDb(p)
    \/ OrmLookupTable(p)
    \/ OrmCommitTable(p)
    \/ OrmLookupSlice(p)
    \/ OrmCommitSlice(p)
    \/ OrmLookupDashboard(p)
    \/ OrmCommitDashboard(p)
    \/ OrmQueryRaises(p)
    \/ OrmMainExcept(p)

-----------------------------------------------------------------------------
(* The REST script: automated-dashboard-creator.py                         *)

\* wait_for_superset(self, max_retries: int = 30)
DefaultMaxRetries == 30

\* the four dashboard functions, in the order create_all_dashboards calls
\* them: the dataset views, the charts (each on one view, with its width and
\* height in the layout) and the dashboard's title and slug
RestDashboards ==
    << [key |-> "overview",
        dashboard_title |-> "Manufacturing Overview",
        slug |-> "manufacturing-overview",
        needs_datasets |-> TRUE,
        dataset_views |-> << "v_realtime_production", "v_equipment_status",
                             "v_oee_hourly_trend", "v_quality_metrics",
                             "v_kpi_summary", "v_downtime_analysis" >>,
        charts |-> <<
          [slice_name |-> "Current OEE", viz_type |-> "gauge_chart",
           view |-> "v_kpi_summary", width |-> 4, height |-> 4],
          [slice_name |-> "Production Trend", viz_type |-> "line",
           view |-> "v_realtime_production", width |-> 8, height |-> 4],
          [slice_name |-> "Equipment Status", viz_type |-> "table",
           view |-> "v_equipment_status", width |-> 6, height |-> 5],
          [slice_name |-> "Quality Metrics", viz_type |-> "big_number_total",
           view |-> "v_quality_metrics", width |-> 6, height |-> 3] >>],
       [key |-> "production",
        dashboard_title |-> "Production Metrics",
        slug |-> "production-metrics",
        needs_datasets |-> FALSE,
        dataset_views |-> << "v_realtime_production", "v_shift_performance" >>,
        charts |-> <<
          [slice_name |-> "Production Volume", viz_type |-> "area",
           view |-> "v_realtime_production", width |-> 12, height |-> 6],
          [slice_name |-> "Shift Performance", viz_type |-> "bar",
           view |-> "v_shift_performance", width |-> 6, height |-> 4] >>],
       [key |-> "quality",
        dashboard_title |-> "Quality Analytics",
        slug |-> "quality-analytics",
        needs_datasets |-> FALSE,
        dataset_views |-> << "v_quality_metrics", "v_scrap_analysis" >>,
        charts |-> <<
          [slice_name |-> "Quality Trend", viz_type |-> "line",
           view |-> "v_quality_metrics", width |-> 8, height |-> 5],
          [slice_name |-> "Scrap by Reason", viz_type |-> "pie",
           view |-> "v_scrap_analysis", width |-> 4, height |-> 5] >>],
       [key |-> "equipment",
        dashboard_title |-> "Equipment Performance",
        slug |-> "equipment-performance",
        needs_datasets |-> FALSE,
        dataset_views |-> << "v_equipment_status", "v_downtime_analysis",
                             "v_oee_hourly_trend" >>,
        charts |-> <<
          [slice_name |-> "OEE by Equipment", viz_type |-> "heatmap",
           view |-> "v_oee_hourly_trend", width |-> 8, height |-> 6],
          [slice_name |-> "Downtime by Reason", viz_type |-> "bar",
           view |-> "v_downtime_analysis", width |-> 4, height |-> 6] >>] >>

RestViews == UNION {Range(RestDashboards[f].dataset_views) :
                      f \in DOMAIN RestDashboards}

NoDatasets == [v \in RestViews |-> None]
EmptyDict == <<>>

(* Responses.  status 0 stands for a transport exception (no response);    *)
(* body "json" is a well-formed body holding the key the step reads,       *)
(* "garbage" is a body that does not parse or lacks that key.              *)
TransportError == [status |-> 0, body |-> "none"]
Nominal(expected) == [status |-> expected, body |-> "json"]
Refused == [status |-> 422, body |-> "json"]

Unexpected(expected) ==
    {TransportError, [status |-> expected, body |-> "garbage"]}
      \cup {[status |-> st, body |-> "json"] : st \in {200, 201, 500} \ {expected}}

\* what the service may answer to a request whose success code is `expected`;
\* `refused`: the platform turns the request down (a registered dataset)
Responses(expected, refused) ==
    IF down THEN {TransportError}
    ELSE IF refused THEN {Refused}
    ELSE {Nominal(expected)}
           \cup (IF fault_budget > 0 THEN Unexpected(expected) ELSE {})

Spend(resp, expected) ==
    fault_budget' = IF ~down /\ resp \in Unexpected(expected)
                      THEN fault_budget - 1 ELSE fault_budget

\* the record of a request: what was asked (`json`: the body posted), what
\* the service answered, whether the step that sent it went on as after a
\* success, and the id the step returned (None when it returned none)
Sent(kind, fn, name, json, resp, ok, id) ==
    r_log' = Append(r_log, [kind |-> kind, fn |-> fn, name |-> name,
                            json |-> json, resp |-> resp, ok |-> ok,
                            id |-> id])

\* the service stops answering
PlatformDown ==
    /\ ~down
    /\ fault_budget > 0
    /\ r_pc \notin {"idle", "returned"}
    /\ down' = TRUE
    /\ fault_budget' = fault_budget - 1
    /\ UNCHANGED <<platformVars, seed, unique_datasets, ormVars, bootVars, restVars>>

\* the service answers again; the model lets it come back while the script
\* polls the health endpoint (an outage later in a run lasts to its end)
PlatformUp ==
    /\ down
    /\ r_pc = "wait"
    /\ down' = FALSE
    /\ UNCHANGED <<platformVars, seed, fault_budget, unique_datasets, ormVars, bootVars,
                   restVars>>

\* a main that writes the file whatever was returned
RestFinishAlwaysWrites(ret) ==
    /\ r_pc' = "idle"
    /\ r_file' = <<ret>>
    /\ r_runs' = Append(r_runs, [ret |-> ret, wrote |-> TRUE])

\* main(), lines 566-573: create_all_dashboards returned `ret`
RestFinish(ret) ==
    LET any == \E k \in DOMAIN ret : ret[k] # None
    IN  /\ r_pc' = "idle"
        /\ r_file' = IF any THEN <<ret>> ELSE r_file
        /\ r_runs' = Append(r_runs, [ret |-> ret, wrote |-> any])

\* python automated-dashboard-creator.py
RestRun ==
    /\ r_pc = "idle"
    /\ r_budget > 0
    /\ r_budget' = r_budget - 1
    /\ r_pc' = "wait"
    /\ r_max_retries' = DefaultMaxRetries
    /\ r_ready' = FALSE
    /\ r_headers' = {}
    /\ r_database_id' = None
    /\ r_fn' = 1
    /\ r_i' = 0
    /\ r_datasets' = NoDatasets
    /\ r_charts' = <<>>
    /\ r_dashboards' = EmptyDict
    /\ r_log' = <<>>
    /\ r_resp' = TransportError
    /\ r_ret' = [step |-> "none", value |-> None]
    /\ UNCHANGED <<platformVars, seed, fault_budget, envVars, ormVars, bootVars, r_runs,
                   r_file>>

\* a health check that takes any answer for readiness
HealthOkAny(resp) == resp.status # 0

\* wait_for_superset, line 64: response.status_code == 200
HealthOk(resp) == resp.status = 200

\* wait_for_superset, lines 61-71: one pass of the loop
RestHealth ==
    /\ r_pc = "wait"
    /\ r_i < r_max_retries
    /\ \E resp \in Responses(200, FALSE) :
          /\ Spend(resp, 200)
          /\ r_resp' = resp
          /\ Sent("health", 0, "", <<>>, resp, HealthOk(resp), None)
          /\ r_i' = r_i + 1
          /\ IF HealthOk(resp)
               THEN r_pc' = "returned" /\ r_ready' = TRUE
               ELSE r_pc' = "wait" /\ r_ready' = r_ready
    /\ UNCHANGED <<platformVars, seed, envVars, ormVars, bootVars, r_budget,
                   r_max_retries, r_headers, r_database_id, r_fn, r_datasets,
                   r_charts, r_dashboards, r_ret, r_runs, r_file>>

\* wait_for_superset, lines 73-74: the loop ran out
RestWaitExhausted ==
    /\ r_pc = "wait"
    /\ r_i >= r_max_retries
    /\ r_pc' = "returned"
    /\ r_ready' = FALSE
    /\ UNCHANGED <<platformVars, seed, fault_budget, envVars, ormVars, bootVars,
                   r_budget, r_max_retries, r_headers, r_database_id, r_fn,
                   r_i, r_datasets, r_charts, r_dashboards, r_log, r_resp,
                   r_ret, r_runs, r_file>>

\* create_all_dashboards going on whatever wait_for_superset returned
RestAfterWaitUnchecked ==
    /\ r_pc = "returned"
    /\ r_i' = 0
    /\ r_pc' = "csrf"
    /\ UNCHANGED <<platformVars, seed, fault_budget, envVars, ormVars, bootVars,
                   r_budget, r_max_retries, r_ready, r_headers, r_database_id,
                   r_fn, r_datasets, r_charts, r_dashboards, r_log, r_resp,
                   r_ret, r_runs, r_file>>

\* create_all_dashboards, lines 513-514
RestAfterWait ==
    /\ r_pc = "returned"
    /\ r_i' = 0
    /\ IF r_ready
         THEN /\ r_pc' = "csrf"
              /\ UNCHANGED <<r_runs, r_file>>
         ELSE RestFinish(EmptyDict)
    /\ UNCHANGED <<platformVars, seed, fault_budget, envVars, ormVars, bootVars,
                   r_budget, r_max_retries, r_ready, r_headers, r_database_id,
                   r_fn, r_datasets, r_charts, r_dashboards, r_log, r_resp,
                   r_ret>>

\* a step that takes the status alone for the success
ParsedAnyBody(resp, expected) == resp.status = expected

\* the value a step returns for a response: response.json()[...] raises on a
\* garbage body, and every exception is caught inside the step
Parsed(resp, expected) == resp.status = expected /\ resp.body = "json"

\* authenticate, lines 28-31: the CSRF token
RestCsrf ==
    /\ r_pc = "csrf"
    /\ \E resp \in Responses(200, FALSE) :
          /\ Spend(resp, 200)
          /\ r_resp' = resp
          /\ Sent("csrf", 0, "", <<>>, resp, Parsed(resp, 200), None)
          /\ IF resp = TransportError \/ (resp.status = 200 /\ ~Parsed(resp, 200))
               THEN \* the exception is caught at lines 55-57
                    /\ r_ret' = [step |-> "authenticate", value |-> FALSE]
                    /\ RestFinish(EmptyDict)
                    /\ UNCHANGED r_headers
               ELSE /\ r_headers' = IF Parsed(resp, 200)
                                      THEN r_headers \cup {"X-CSRFToken"}
                                      ELSE r_headers
                    /\ r_pc' = "login"
                    /\ UNCHANGED <<r_ret, r_runs, r_file>>
    /\ UNCHANGED <<platformVars, seed, envVars, ormVars, bootVars, r_budget,
                   r_max_retries, r_ready, r_database_id, r_fn, r_i,
                   r_datasets, r_charts, r_dashboards>>

\* authenticate, lines 34-57: the login
RestLogin ==
    /\ r_pc = "login"
    /\ \E resp \in Responses(200, FALSE) :
          /\ Spend(resp, 200)
          /\ r_resp' = resp
          /\ Sent("login", 0, "", <<>>, resp, Parsed(resp, 200), None)
          /\ r_ret' = [step |-> "authenticate", value |-> Parsed(resp, 200)]
          /\ IF Parsed(resp, 200)
               THEN /\ r_headers' = r_headers \cup {"Authorization"}
                    /\ r_pc' = "database"
                    /\ UNCHANGED <<r_runs, r_file>>
               ELSE /\ RestFinish(EmptyDict)
                    /\ UNCHANGED r_headers
    /\ UNCHANGED <<platformVars, seed, envVars, ormVars, bootVars, r_budget,
                   r_max_retries, r_ready, r_database_id, r_fn, r_i,
                   r_datasets, r_charts, r_dashboards>>

Min(S) == CHOOSE x \in S : \A y \in S : x <= y
Max(S) == CHOOSE x \in S : \A y \in S : x >= y

\* get_database_id, lines 78-88: the first listed database of that name
DatabaseIdOf(resp, database_name) ==
    IF Parsed(resp, 200) /\ QueryDatabase(database_name) # {}
      THEN Min(QueryDatabase(database_name))
      ELSE None

\* create_all_dashboards, lines 521-526
RestGetDatabaseId ==
    /\ r_pc = "database"
    /\ \E resp \in Responses(200, FALSE) :
          LET database_id == DatabaseIdOf(resp, MfgDbName)
          IN  /\ Spend(resp, 200)
              /\ r_resp' = resp
              /\ Sent("database", 0, MfgDbName, <<>>, resp,
                      database_id # None, database_id)
              /\ r_ret' = [step |-> "get_database_id", value |-> database_id]
              /\ r_database_id' = database_id
              /\ IF database_id # None
                   THEN /\ r_pc' = "datasets"
                        /\ r_i' = 1
                        /\ UNCHANGED <<r_runs, r_file>>
                   ELSE /\ RestFinish(EmptyDict)
                        /\ UNCHANGED r_i
    /\ UNCHANGED <<platformVars, seed, envVars, ormVars, bootVars, r_budget,
                   r_max_retries, r_ready, r_headers, r_fn, r_datasets,
                   r_charts, r_dashboards>>

\* a step that takes the status alone for the success
CreatedIdAnyBody(resp, id) == IF resp.status = 201 THEN id ELSE None

\* create_dataset / create_chart / create_dashboard: the id of the response
CreatedId(resp, id) == IF Parsed(resp, 201) THEN id ELSE None

\* the platform stores the row exactly when it answers 201 Created
Stored(tbl, resp, row) == IF resp.status = 201 THEN Append(tbl, row) ELSE tbl

\* dashboard function, the loop over dataset_views (lines 170-173)
RestCreateDataset ==
    /\ r_pc = "datasets"
    /\ LET fn == RestDashboards[r_fn]
           view == fn.dataset_views[r_i]
           registered == unique_datasets
                           /\ QuerySqlaTable(view, r_database_id) # {}
       IN  \E resp \in Responses(201, registered) :
             LET dataset_id == CreatedId(resp, Len(tables) + 1)
             IN  /\ Spend(resp, 201)
                 /\ r_resp' = resp
                 /\ tables' = Stored(tables, resp,
                                     NewSqlaTable(view, r_database_id))
                 /\ Sent("dataset", r_fn, view,
                         NewSqlaTable(view, r_database_id), resp,
                         dataset_id # None, dataset_id)
                 /\ r_ret' = [step |-> "create_dataset", value |-> dataset_id]
                 /\ r_datasets' = IF dataset_id # None
                                     THEN [r_datasets EXCEPT ![view] = dataset_id]
                                     ELSE r_datasets
                 /\ IF r_i < Len(fn.dataset_views)
                      THEN r_i' = r_i + 1 /\ r_pc' = "datasets"
                      ELSE r_i' = 1 /\ r_pc' = "datasets_done"
    /\ UNCHANGED <<databases, slices, dashboards, seed, envVars, ormVars, bootVars,
                   r_budget, r_max_retries, r_ready, r_headers, r_database_id,
                   r_fn, r_charts, r_dashboards, r_runs, r_file>>

\* a dashboard function returns `ret` to create_all_dashboards (lines 532-541)
FnReturn(ret) ==
    /\ r_dashboards' = (RestDashboards[r_fn].key :> ret) @@ r_dashboards
    /\ r_datasets' = NoDatasets
    /\ r_charts' = <<>>
    /\ r_i' = 1
    /\ IF r_fn < Len(RestDashboards)
         THEN r_fn' = r_fn + 1 /\ r_pc' = "datasets"
         ELSE r_fn' = r_fn /\ r_pc' = "summary"

HasNoDatasets == \A v \in RestViews : r_datasets[v] = None

\* create_manufacturing_overview_dashboard, lines 175-177
RestNoDatasets ==
    /\ r_pc = "datasets_done"
    /\ RestDashboards[r_fn].needs_datasets
    /\ HasNoDatasets
    /\ FnReturn(None)
    /\ UNCHANGED <<platformVars, seed, fault_budget, envVars, ormVars, bootVars,
                   r_budget, r_max_retries, r_ready, r_headers, r_database_id,
                   r_log, r_resp, r_ret, r_runs, r_file>>

\* charts = []
RestBeginCharts ==
    /\ r_pc = "datasets_done"
    /\ ~(RestDashboards[r_fn].needs_datasets /\ HasNoDatasets)
    /\ r_pc' = "charts"
    /\ r_i' = 1
    /\ UNCHANGED <<platformVars, seed, fault_budget, envVars, ormVars, bootVars,
                   r_budget, r_max_retries, r_ready, r_headers, r_database_id,
                   r_fn, r_datasets, r_charts, r_dashboards, r_log, r_resp,
                   r_ret, r_runs, r_file>>

\* a loop that posts a chart again after a failure
NextChartOrRetry ==
    IF r_resp'.status # 201
      THEN r_i' = r_i /\ r_pc' = "charts"
      ELSE IF r_i < Len(RestDashboards[r_fn].charts)
             THEN r_i' = r_i + 1 /\ r_pc' = "charts"
             ELSE r_i' = 1 /\ r_pc' = "dashboard"

\* the next `if "<view>" in datasets:` block, or the end of the charts
NextChart ==
    IF r_i < Len(RestDashboards[r_fn].charts)
      THEN r_i' = r_i + 1 /\ r_pc' = "charts"
      ELSE r_i' = 1 /\ r_pc' = "dashboard"

RestSlice(chart, datasource_id) ==
    [slice_name |-> chart.slice_name,
     viz_type |-> chart.viz_type,
     datasource_type |-> "table",
     datasource_id |-> datasource_id]

\* a chart block without its `if`
InDatasetsOrNot(view) == TRUE

\* `"<view>" in datasets`

InDatasets(view) == r_datasets[view] # None

\* dashboard function: `if "<view>" in datasets:` holds, the chart is posted
RestCreateChart ==
    /\ r_pc = "charts"
    /\ LET chart == RestDashboards[r_fn].charts[r_i]
       IN  /\ InDatasets(chart.view)
           /\ \E resp \in Responses(201, FALSE) :
                 LET chart_id == CreatedId(resp, Len(slices) + 1)
                 IN  /\ Spend(resp, 201)
                     /\ r_resp' = resp
                     /\ slices' = Stored(slices, resp,
                                         RestSlice(chart, r_datasets[chart.view]))
                     /\ Sent("chart", r_fn, chart.slice_name,
                             RestSlice(chart, r_datasets[chart.view]), resp,
                             chart_id # None, chart_id)
                     /\ r_ret' = [step |-> "create_chart", value |-> chart_id]
                     /\ r_charts' =
                          IF chart_id # None
                            THEN Append(r_charts,
                                        [id |-> chart_id, type |-> "CHART",
                                         meta |-> [width |-> chart.width,
                                                   height |-> chart.height]])
                            ELSE r_charts
                     /\ NextChart
    /\ UNCHANGED <<databases, tables, dashboards, seed, envVars, ormVars, bootVars,
                   r_budget, r_max_retries, r_ready, r_headers, r_database_id,
                   r_fn, r_datasets, r_dashboards, r_runs, r_file>>

\* dashboard function: the chart's view is not in datasets, nothing is sent
RestSkipChart ==
    /\ r_pc = "charts"
    /\ ~InDatasets(RestDashboards[r_fn].charts[r_i].view)
    /\ UNCHANGED <<platformVars, seed, fault_budget, envVars, ormVars, bootVars,
                   r_budget, r_max_retries, r_ready, r_headers, r_database_id,
                   r_fn, r_datasets, r_charts, r_dashboards, r_log, r_resp,
                   r_ret, r_runs, r_file>>
    /\ NextChart

\* str(chart["id"]): the decimal digits of the id
RECURSIVE Str(_)
Str(n) == IF n < 10 THEN <<n>> ELSE Str(n \div 10) \o <<n % 10>>

\* a key that leaves the id out
ChartKeyNoId(id) == <<"CHART-">>

\* "CHART-" + str(chart["id"])
ChartKey(id) == <<"CHART-">> \o Str(id)

\* the dict comprehension of position_json: a later chart of the same key
\* replaces an earlier one
RestPosition(charts) ==
    [k \in {ChartKey(charts[i].id) : i \in DOMAIN charts} |->
        LET chart == charts[Max({i \in DOMAIN charts :
                                    ChartKey(charts[i].id) = k})]
        IN  [id |-> ChartKey(chart.id),
             type |-> chart.type,
             children |-> <<>>,
             meta |-> [chartId |-> chart.id,
                       width |-> chart.meta.width,
                       height |-> chart.meta.height]]]

RestDashboard(fn, charts) ==
    [dashboard_title |-> fn.dashboard_title,
     slug |-> fn.slug,
     slices |-> <<>>,
     position_json |-> RestPosition(charts),
     published |-> FALSE]

QuerySlug(slug) == {i \in DOMAIN dashboards : dashboards[i].slug = slug}

\* dashboard function: `if charts:` holds, the dashboard is posted
RestCreateDashboard ==
    /\ r_pc = "dashboard"
    /\ r_charts # <<>>
    /\ LET fn == RestDashboards[r_fn]
           taken == unique_datasets /\ QuerySlug(fn.slug) # {}
       IN  \E resp \in Responses(201, taken) :
             LET dashboard_id == CreatedId(resp, Len(dashboards) + 1)
             IN  /\ Spend(resp, 201)
                 /\ r_resp' = resp
                 /\ dashboards' = Stored(dashboards, resp,
                                         RestDashboard(fn, r_charts))
                 /\ Sent("dashboard", r_fn, fn.dashboard_title,
                         RestDashboard(fn, r_charts), resp,
                         dashboard_id # None, dashboard_id)
                 /\ r_ret' = [step |-> "create_dashboard",
                              value |-> dashboard_id]
                 /\ FnReturn(dashboard_id)
    /\ UNCHANGED <<databases, tables, slices, seed, envVars, ormVars, bootVars,
                   r_budget, r_max_retries, r_ready, r_headers, r_database_id,
                   r_runs, r_file>>

\* dashboard function: no chart was created, `return None`
RestNoCharts ==
    /\ r_pc = "dashboard"
    /\ r_charts = <<>>
    /\ FnReturn(None)
    /\ UNCHANGED <<platformVars, seed, fault_budget, envVars, ormVars, bootVars,
                   r_budget, r_max_retries, r_ready, r_headers, r_database_id,
                   r_log, r_resp, r_ret, r_runs, r_file>>

\* create_all_dashboards, lines 543-562: the summary, `return dashboards`
RestSummary ==
    /\ r_pc = "summary"
    /\ RestFinish(r_dashboards)
    /\ UNCHANGED <<platformVars, seed, fault_budget, envVars, ormVars, bootVars,
                   r_budget, r_max_retries, r_ready, r_headers, r_database_id,
                   r_fn, r_i, r_datasets, r_charts, r_dashboards, r_log,
                   r_resp, r_ret>>

RestStep ==
    \/ RestRun
    \/ RestHealth
    \/ RestWaitExhausted
    \/ RestAfterWait
    \/ RestCsrf
    \/ RestLogin
    \/ RestGetDatabaseId
    \/ RestCreateDataset
    \/ RestNoDatasets
    \/ RestBeginCharts
    \/ RestCreateChart
    \/ RestSkipChart
    \/ RestCreateDashboard
    \/ RestNoCharts
    \/ RestSummary
    \/ PlatformDown
    \/ PlatformUp

-----------------------------------------------------------------------------
(* The startup hook: superset_config.py                                    *)

\* os.environ of a boot: the variables that are set, with their values
Environments ==
    { <<>>,
      [k \in {"MANUFACTURING_DB_HOST", "MANUFACTURING_DB_PASSWORD"} |->
         IF k = "MANUFACTURING_DB_HOST" THEN "db.internal" ELSE "s3cret"] }

\* os.environ.get(key, default)
EnvironGet(env, key, default) ==
    IF key \in DOMAIN env THEN env[key] ELSE default

\* line 148: the f-string of the connection URI
ManufacturingUri(env) ==
    << "postgresql://",
       EnvironGet(env, "MANUFACTURING_DB_USER", "postgres"), ":",
       EnvironGet(env, "MANUFACTURING_DB_PASSWORD", "postgres"), "@",
       EnvironGet(env, "MANUFACTURING_DB_HOST", "timescaledb"), ":5432/",
       EnvironGet(env, "MANUFACTURING_DB_NAME", "manufacturing") >>

\* lines 146-154
NewDatabase(env) ==
    [database_name |-> MfgDbName,
     sqlalchemy_uri |-> ManufacturingUri(env),
     expose_in_sqllab |-> TRUE, allow_ctas |-> TRUE, allow_cvas |-> TRUE,
     allow_dml |-> TRUE, allow_multi_schema_metadata_fetch |-> TRUE]

\* init_manufacturing_database returned; init_app completes
BootFinish(p, found, created, error) ==
    /\ b_pc' = [b_pc EXCEPT ![p] = "idle"]
    /\ b_runs' = [b_runs EXCEPT ![p] =
                    Append(@, [found |-> found, created |-> created,
                               error |-> error])]

\* CustomSupersetAppInitializer.init_app, lines 165-168
BootRun(p) ==
    /\ b_pc[p] = "idle"
    /\ b_budget[p] > 0
    /\ b_budget' = [b_budget EXCEPT ![p] = @ - 1]
    /\ \E env \in Environments : b_env' = [b_env EXCEPT ![p] = env]
    /\ b_pc' = [b_pc EXCEPT ![p] = "lookup"]
    /\ UNCHANGED <<platformVars, seed, fault_budget, envVars, ormVars,
                   restVars, b_session, b_runs>>

\* a lookup by connection URI instead of name
ExistingDbByUri(env) ==
    {i \in DOMAIN databases :
        databases[i].sqlalchemy_uri = ManufacturingUri(env)}

\* lines 140-142
ExistingDb(env) == QueryDatabase(MfgDbName)

\* a hook that brings the connection it finds up to the environment
BootFoundUpdates(p) ==
    /\ b_pc[p] = "lookup"
    /\ ExistingDb(b_env[p]) # {}
    /\ \E d \in ExistingDb(b_env[p]) :
          databases' = [databases EXCEPT ![d] = NewDatabase(b_env[p])]
    /\ BootFinish(p, TRUE, None, FALSE)
    /\ UNCHANGED <<tables, slices, dashboards, seed, fault_budget, envVars,
                   ormVars, restVars, b_budget, b_env, b_session>>

\* lines 140-144: the connection exists, nothing to do
BootFound(p) ==
    /\ b_pc[p] = "lookup"
    /\ ExistingDb(b_env[p]) # {}
    /\ BootFinish(p, TRUE, None, FALSE)
    /\ UNCHANGED <<platformVars, seed, fault_budget, envVars, ormVars,
                   restVars, b_budget, b_env, b_session>>

\* lines 140-144: no connection of that name
BootNotFound(p) ==
    /\ b_pc[p] = "lookup"
    /\ ExistingDb(b_env[p]) = {}
    /\ b_pc' = [b_pc EXCEPT ![p] = "commit"]
    /\ UNCHANGED <<platformVars, seed, fault_budget, envVars, ormVars,
                   restVars, b_budget, b_env, b_session, b_runs>>

\* lines 146-157: add the connection and commit
BootCommit(p) ==
    /\ b_pc[p] = "commit"
    /\ databases' = Append(databases, NewDatabase(b_env[p]))
    /\ BootFinish(p, FALSE, Len(databases) + 1, FALSE)
    /\ UNCHANGED <<tables, slices, dashboards, seed, fault_budget, envVars,
                   ormVars, restVars, b_budget, b_env, b_session>>

\* lines 158-159: the lookup or the commit raises; the exception is logged
BootRaises(p) ==
    /\ b_pc[p] \in {"lookup", "commit"}
    /\ fault_budget > 0
    /\ fault_budget' = fault_budget - 1
    /\ b_session' = [b_session EXCEPT ![p] =
                        IF b_pc[p] = "commit"
                          THEN Append(@, NewDatabase(b_env[p])) ELSE @]
    /\ BootFinish(p, FALSE, None, TRUE)
    /\ UNCHANGED <<platformVars, seed, envVars, ormVars, restVars, b_budget,
                   b_env>>

BootStep(p) ==
    \/ BootRun(p)
    \/ BootFound(p)
    \/ BootNotFound(p)
    \/ BootCommit(p)
    \/ BootRaises(p)

-----------------------------------------------------------------------------
(* The platform before the first run: a few rows made by hand or by an     *)
(* earlier provisioning, in any combination, duplicates by name included   *)
(* (neither script relies on a uniqueness constraint of the platform).     *)

\* the kinds of row the seed may hold
SeedKinds ==
    << <<"table", views[1], SeedMfgDbId>>,
       <<"table", views[2], SeedMfgDbId>>,
       <<"table", views[3], SeedMfgDbId>>,
       <<"table", views[1], OtherDbId>>,
       <<"slice", OrmCharts[1].name, 0>>,
       <<"slice", OrmCharts[2].name, 0>>,
       <<"slice", OrmCharts[3].name, 0>>,
       <<"dashboard", dashboard_title, 0>> >>

\* a seed: kinds in non-decreasing order (the order of rows of different
\* tables does not matter)
Seeds ==
    UNION {{s \in [1..n -> 1..Len(SeedKinds)] :
              \A i \in 1..(n - 1) : s[i] <= s[i + 1]} : n \in 0..MaxSeed}

RECURSIVE SeedRows(_, _)
SeedRows(s, kind) ==
    IF s = <<>> THEN <<>>
    ELSE LET k == SeedKinds[Head(s)]
             rest == SeedRows(Tail(s), kind)
         IN  IF k[1] # kind THEN rest
             ELSE CASE kind = "table" ->
                         <<[table_name |-> k[2], database_id |-> k[3]]>> \o rest
                    [] kind = "slice" ->
                         <<[slice_name |-> k[2], viz_type |-> "gauge_chart",
                            datasource_type |-> "table",
                            datasource_id |-> k[3]]>> \o rest
                    [] kind = "dashboard" ->
                         <<[dashboard_title |-> k[2], slug |-> "",
                            slices |-> <<>>, position_json |-> <<>>,
                            published |-> FALSE]>> \o rest

\* a connection made by hand: its URI and flags are not the hook's
SeedUri == <<"postgresql://", "admin", ":", "secret", "@", "pg.example",
             ":5432/", "factory">>

MfgDatabase ==
    [database_name |-> MfgDbName, sqlalchemy_uri |-> SeedUri,
     expose_in_sqllab |-> TRUE, allow_ctas |-> FALSE, allow_cvas |-> FALSE,
     allow_dml |-> FALSE, allow_multi_schema_metadata_fetch |-> FALSE]

OtherDatabase ==
    [database_name |-> OtherDbName, sqlalchemy_uri |-> <<"sqlite://">>,
     expose_in_sqllab |-> TRUE, allow_ctas |-> FALSE, allow_cvas |-> FALSE,
     allow_dml |-> FALSE, allow_multi_schema_metadata_fetch |-> FALSE]

SeedNeedsMfgDb(s) ==
    \E i \in DOMAIN s : /\ SeedKinds[s[i]][1] = "table"
                         /\ SeedKinds[s[i]][3] = SeedMfgDbId

InitPlatform ==
    /\ seed \in Seeds
    /\ databases \in {<<OtherDatabase>>, <<OtherDatabase, MfgDatabase>>}
    /\ SeedNeedsMfgDb(seed) => Len(databases) = SeedMfgDbId
    /\ tables = SeedRows(seed, "table")
    /\ slices = SeedRows(seed, "slice")
    /\ dashboards = SeedRows(seed, "dashboard")

InitOrmIdle ==
    /\ o_pc = [p \in Procs |-> "idle"]
    /\ o_db = [p \in Procs |-> None]
    /\ o_tables = [p \in Procs |-> NoTables]
    /\ o_charts = [p \in Procs |-> <<>>]
    /\ o_i = [p \in Procs |-> 1]
    /\ o_session = [p \in Procs |-> <<>>]
    /\ o_committed = [p \in Procs |-> {}]
    /\ o_runs = [p \in Procs |-> <<>>]


InitRestIdle ==
    /\ r_pc = "idle"
    /\ r_max_retries = DefaultMaxRetries
    /\ r_ready = FALSE
    /\ r_headers = {}
    /\ r_database_id = None
    /\ r_fn = 1
    /\ r_i = 0
    /\ r_datasets = NoDatasets
    /\ r_charts = <<>>
    /\ r_dashboards = EmptyDict
    /\ r_log = <<>>
    /\ r_resp = TransportError
    /\ r_ret = [step |-> "none", value |-> None]
    /\ r_runs = <<>>
    /\ r_file = <<>>

InitBootIdle ==
    /\ b_pc = [p \in Procs |-> "idle"]
    /\ b_env = [p \in Procs |-> <<>>]
    /\ b_session = [p \in Procs |-> <<>>]
    /\ b_runs = [p \in Procs |-> <<>>]

vars == <<platformVars, seed, fault_budget, envVars, ormVars, restVars,
          bootVars>>

-----------------------------------------------------------------------------
(* SpecOrm: one operator runs the ORM script OrmMaxRuns times in sequence  *)

InitOrm ==
    /\ InitPlatform
    /\ fault_budget = OrmMaxFaults
    /\ unique_datasets = FALSE
    /\ down = FALSE
    /\ InitOrmIdle
    /\ o_budget = [p \in Procs |-> IF p = 1 THEN OrmMaxRuns ELSE 0]
    /\ InitRestIdle
    /\ r_budget = 0
    /\ InitBootIdle
    /\ b_budget = [p \in Procs |-> 0]

NextOrm == \E p \in Procs : OrmStep(p)

SpecOrm == InitOrm /\ [][NextOrm]_vars

\* SpecOrmPair: two invocations of the ORM script, one run each, started
\* against one platform and interleaved at their queries and commits
InitOrmPair ==
    /\ seed = <<>>
    /\ databases \in {<<OtherDatabase>>, <<OtherDatabase, MfgDatabase>>}
    /\ tables = <<>>
    /\ slices = <<>>
    /\ dashboards = <<>>
    /\ fault_budget = PairMaxFaults
    /\ unique_datasets = FALSE
    /\ down = FALSE
    /\ InitOrmIdle
    /\ o_budget = [p \in Procs |-> 1]
    /\ InitRestIdle
    /\ r_budget = 0
    /\ InitBootIdle
    /\ b_budget = [p \in Procs |-> 0]

SpecOrmPair == InitOrmPair /\ [][NextOrm]_vars

-----------------------------------------------------------------------------
(* SpecRest: the REST script is run once against a platform that holds no  *)
(* dataset, chart or dashboard yet; SpecRestTwice: it is run RestMaxRuns   *)
(* times in sequence                                                       *)

InitRestPlatform ==
    /\ seed = <<>>
    /\ databases \in {<<OtherDatabase>>, <<OtherDatabase, MfgDatabase>>}
    /\ tables = <<>>
    /\ slices = <<>>
    /\ dashboards = <<>>
    /\ unique_datasets \in BOOLEAN
    /\ down = FALSE
    /\ fault_budget = RestMaxFaults
    /\ InitOrmIdle
    /\ o_budget = [p \in Procs |-> 0]
    /\ InitBootIdle
    /\ b_budget = [p \in Procs |-> 0]
    /\ InitRestIdle

InitRest == InitRestPlatform /\ r_budget = 1

InitRestTwice == InitRestPlatform /\ r_budget = RestMaxRuns

NextRest == RestStep

SpecRest == InitRest /\ [][NextRest]_vars

SpecRestTwice == InitRestTwice /\ [][NextRest]_vars

-----------------------------------------------------------------------------
(* SpecWait: wait_for_superset(max_retries) called on its own              *)

InitWait ==
    /\ seed = <<>>
    /\ databases = <<OtherDatabase, MfgDatabase>>
    /\ tables = <<>>
    /\ slices = <<>>
    /\ dashboards = <<>>
    /\ unique_datasets = FALSE
    /\ down \in BOOLEAN
    /\ fault_budget = MaxWaitRetries
    /\ InitOrmIdle
    /\ o_budget = [p \in Procs |-> 0]
    /\ InitBootIdle
    /\ b_budget = [p \in Procs |-> 0]
    /\ r_pc = "wait"
    /\ r_max_retries \in 0..MaxWaitRetries
    /\ r_budget = 0
    /\ r_ready = FALSE
    /\ r_headers = {}
    /\ r_database_id = None
    /\ r_fn = 1
    /\ r_i = 0
    /\ r_datasets = NoDatasets
    /\ r_charts = <<>>
    /\ r_dashboards = EmptyDict
    /\ r_log = <<>>
    /\ r_resp = TransportError
    /\ r_ret = [step |-> "none", value |-> None]
    /\ r_runs = <<>>
    /\ r_file = <<>>

NextWait ==
    \/ RestHealth
    \/ RestWaitExhausted
    \/ PlatformDown
    \/ PlatformUp

SpecWait == InitWait /\ [][NextWait]_vars

-----------------------------------------------------------------------------
(* SpecBoot: the platform boots MaxBoots times in sequence                 *)

InitBoot ==
    /\ seed = <<>>
    /\ databases \in {<<>>, <<OtherDatabase>>, <<OtherDatabase, MfgDatabase>>}
    /\ tables = <<>>
    /\ slices = <<>>
    /\ dashboards = <<>>
    /\ unique_datasets = FALSE
    /\ down = FALSE
    /\ fault_budget = BootMaxFaults
    /\ InitOrmIdle
    /\ o_budget = [p \in Procs |-> 0]
    /\ InitRestIdle
    /\ r_budget = 0
    /\ InitBootIdle
    /\ b_budget = [p \in Procs |-> IF p = 1 THEN MaxBoots ELSE 0]

NextBoot == \E p \in Procs : BootStep(p)

SpecBoot == InitBoot /\ [][NextBoot]_vars

\* SpecBootPair: two platform processes boot once each against one metadata
\* database, interleaved at the lookup and the commit of the hook
InitBootPair ==
    /\ seed = <<>>
    /\ databases \in {<<>>, <<OtherDatabase>>, <<OtherDatabase, MfgDatabase>>}
    /\ tables = <<>>
    /\ slices = <<>>
    /\ dashboards = <<>>
    /\ unique_datasets = FALSE
    /\ down = FALSE
    /\ fault_budget = BootMaxFaults
    /\ InitOrmIdle
    /\ o_budget = [p \in Procs |-> 0]
    /\ InitRestIdle
    /\ r_budget = 0
    /\ InitBootIdle
    /\ b_budget = [p \in Procs |-> 1]

SpecBootPair == InitBootPair /\ [][NextBoot]_vars

\* SpecBootFair: SpecBoot with the hook of a booting process running on: a
\* query or a commit returns or raises
SpecBootFair ==
    SpecBoot /\ WF_vars(\E p \in Procs : \/ BootFound(p)
                                        \/ BootNotFound(p)
                                        \/ BootCommit(p))

-----------------------------------------------------------------------------
(* SpecScripts: the two provisioning scripts, each against its own         *)
(* platform as in SpecOrm and SpecRest, or both started against one        *)
(* platform that has no connection named MfgDbName                         *)

InitBothAbsent ==
    /\ seed = <<>>
    /\ databases = <<OtherDatabase>>
    /\ tables = <<>>
    /\ slices = <<>>
    /\ dashboards = <<>>
    /\ unique_datasets \in BOOLEAN
    /\ down = FALSE
    /\ fault_budget = RestMaxFaults
    /\ InitOrmIdle
    /\ o_budget = [p \in Procs |-> IF p = 1 THEN 1 ELSE 0]
    /\ InitBootIdle
    /\ b_budget = [p \in Procs |-> 0]
    /\ InitRestIdle
    /\ r_budget = 1

InitScripts == InitOrm \/ InitRest \/ InitBothAbsent

NextScripts == NextOrm \/ NextRest

SpecScripts == InitScripts /\ [][NextScripts]_vars

-----------------------------------------------------------------------------
(* Properties of the ORM script                                            *)

OrmDbExists == QueryDatabase(MfgDbName) # {}

\* the run returned from create_manufacturing_dashboard without an exception
Completed(run) == run.ret # Raised

\* exactly one dashboard of the title, one chart per chart name and one
\* dataset per view on the manufacturing connection
OrmExactlyOne ==
    /\ Cardinality(QueryDashboard(dashboard_title)) = 1
    /\ \A n \in DOMAIN OrmCharts :
          Cardinality(QuerySlice(OrmCharts[n].name)) = 1
    /\ \A i \in DOMAIN views : \A d \in QueryDatabase(MfgDbName) :
          Cardinality(QuerySqlaTable(views[i], d)) = 1

\* the second of two completed runs returns what the first returned and
\* commits nothing, and the platform holds one object per name
SecondRunChangesNothing ==
    /\ o_runs[1][2].ret = o_runs[1][1].ret
    /\ o_runs[1][2].committed = {}
    /\ OrmExactlyOne

TwoCompletedRuns ==
    /\ Len(o_runs[1]) >= 2
    /\ Completed(o_runs[1][1])
    /\ Completed(o_runs[1][2])

\* no two rows of the seed are datasets of one view on the manufacturing
\* connection, charts of one name or dashboards of one title
SeedHasNoDuplicates ==
    \A i, j \in DOMAIN seed :
        (i < j /\ seed[i] = seed[j]) => SeedKinds[seed[i]][3] = OtherDbId

\* C1 as stated: from ANY platform state in which the connection exists,
\* two completed runs of the ORM script end with the second run returning
\* the first run's dashboard id and committing nothing, and with exactly one
\* dashboard, one chart per chart name and one dataset per view.
C1_AnyState ==
    (OrmDbExists /\ TwoCompletedRuns) => SecondRunChangesNothing

\* C1, amended: the same, from any platform state in which the connection
\* exists and which holds at most one dashboard of the title, at most one
\* chart per chart name and at most one dataset per view on the connection.
C1_Idempotent ==
    (OrmDbExists /\ SeedHasNoDuplicates /\ TwoCompletedRuns)
        => SecondRunChangesNothing

\* two completed runs from an empty platform: the first commits the three
\* datasets, the three charts and the dashboard, the second returns its id
C1_Witness ==
    /\ OrmDbExists
    /\ seed = <<>>
    /\ TwoCompletedRuns
    /\ Cardinality(o_runs[1][1].committed) = Len(views) + Len(OrmCharts) + 1
    /\ o_runs[1][2].ret = o_runs[1][1].ret
    /\ o_runs[1][2].ret # None

\* the row a committed entry names is in its table
Persisted(c) ==
    CASE c[1] = "table" -> c[2] \in DOMAIN tables
      [] c[1] = "slice" -> c[2] \in DOMAIN slices
      [] c[1] = "dashboard" -> c[2] \in DOMAIN dashboards

\* C8: a run of the ORM script in which a step raises ends in the top-level
\* handler with exactly one session rollback and no success report, the rows
\* the run committed before the failure stay in their tables and the
\* objects added and not committed are dropped; a run in which nothing
\* raises rolls nothing back.
C8_FailureHandling ==
    \A p \in Procs :
        /\ \A n \in DOMAIN o_runs[p] :
              LET run == o_runs[p][n]
              IN  /\ ~Completed(run) =>
                        /\ run.rollbacks = 1
                        /\ ~run.reported
                        /\ \A c \in run.committed : Persisted(c)
                  /\ Completed(run) => run.rollbacks = 0
        /\ o_pc[p] = "idle" => o_session[p] = <<>>

\* a run that failed after it had committed the datasets and a chart
C8_Witness ==
    \E n \in DOMAIN o_runs[1] :
        /\ ~Completed(o_runs[1][n])
        /\ Cardinality(o_runs[1][n].committed) > Len(views)
        /\ o_runs[1][n].rollbacks = 1

-----------------------------------------------------------------------------
(* Properties of the two scripts when the connection is missing            *)

\* the platform holds the rows it held before the first run and no other
PlatformUntouched ==
    /\ tables = SeedRows(seed, "table")
    /\ slices = SeedRows(seed, "slice")
    /\ dashboards = SeedRows(seed, "dashboard")

CreationKinds == {"dataset", "chart", "dashboard"}

\* the database lookup of the REST run returned None
LookupReturnedNone ==
    \E k \in DOMAIN r_log : r_log[k].kind = "database" /\ ~r_log[k].ok

\* C3: with no connection named MfgDbName on the platform, a run of the ORM
\* script that gets through its lookup returns None, reports no success and
\* commits nothing, the lookup of the REST script finds nothing, and no
\* row is added to the platform; a REST run whose lookup returned None sent
\* no creation request and returned the empty dict at once.
C3_NothingWithoutDatabase ==
    /\ ~OrmDbExists =>
          /\ PlatformUntouched
          /\ \A p \in Procs : \A n \in DOMAIN o_runs[p] :
                LET run == o_runs[p][n]
                IN  /\ Completed(run) => run.ret = None
                    /\ ~run.reported
                    /\ run.committed = {}
          /\ \A k \in DOMAIN r_log : r_log[k].kind = "database" => ~r_log[k].ok
    /\ LookupReturnedNone =>
          /\ \A k \in DOMAIN r_log : r_log[k].kind \notin CreationKinds
          /\ r_pc = "idle"
          /\ r_runs # <<>>
          /\ r_runs[Len(r_runs)].ret = EmptyDict
          /\ PlatformUntouched

\* both scripts have run against a platform without the connection: the ORM
\* script looked it up and returned None, the REST script got a well-formed
\* list of databases that does not name it
C3_Witness ==
    /\ ~OrmDbExists
    /\ o_runs[1] # <<>>
    /\ o_runs[1][1].ret = None
    /\ r_runs # <<>>
    /\ \E k \in DOMAIN r_log : /\ r_log[k].kind = "database"
                               /\ r_log[k].resp = Nominal(200)

-----------------------------------------------------------------------------
(* SpecWaitFair: wait_for_superset keeps running until it returns          *)

SpecWaitFair == SpecWait /\ WF_vars(RestHealth \/ RestWaitExhausted)

\* what the health requests sent so far say about where the loop is
WaitBounded ==
    /\ r_pc \in {"wait", "returned"}
    /\ Len(r_log) = r_i
    /\ r_i <= r_max_retries
    /\ \A k \in DOMAIN r_log :
          /\ r_log[k].kind = "health"
          /\ r_log[k].ok <=> r_log[k].resp.status = 200
          /\ r_log[k].resp.status = 200 => k = Len(r_log)
    /\ r_pc = "wait" =>
          /\ ~r_ready
          /\ \A k \in DOMAIN r_log : r_log[k].resp.status # 200
    /\ r_pc = "returned" =>
          /\ r_ready <=> (r_log # <<>> /\ r_log[Len(r_log)].resp.status = 200)
          /\ ~r_ready => Len(r_log) = r_max_retries

\* C4: wait_for_superset(max_retries) returns, after at most max_retries
\* health requests: True at the first request answered with status 200,
\* after which no health request is sent, and False after exactly
\* max_retries requests none of which was answered with 200; a request that
\* raises is one of the failed requests and the loop goes on.
C4_WaitTerminates == []WaitBounded /\ <>(r_pc = "returned")

\* True at the third request, after a request that raised and a request
\* answered with another status
C4_Witness ==
    /\ r_pc = "returned"
    /\ r_ready
    /\ Len(r_log) >= 3
    /\ \E k \in DOMAIN r_log : r_log[k].resp = TransportError
    /\ \E k \in DOMAIN r_log : r_log[k].resp.status = 500

-----------------------------------------------------------------------------
(* Properties of one run of the REST script                                *)

\* the position of a request in create_all_dashboards
Stage(kind) ==
    CASE kind = "health" -> 1
      [] kind = "csrf" -> 2
      [] kind = "login" -> 3
      [] kind = "database" -> 4
      [] kind \in CreationKinds -> 5

\* the position of a creation request in a dashboard function
Rank(kind) ==
    CASE kind = "dataset" -> 1
      [] kind = "chart" -> 2
      [] kind = "dashboard" -> 3

Keys == [f \in DOMAIN RestDashboards |-> RestDashboards[f].key]

\* the requests of kind `kind` after which the step went on as after a success
Succeeded(kind) ==
    {k \in DOMAIN r_log : r_log[k].kind = kind /\ r_log[k].ok}

\* C5: a dataset, chart or dashboard creation request is preceded by a
\* health request that succeeded, then a login that succeeded, then a
\* database lookup that returned an id; within a dashboard function the
\* dataset requests come before the chart requests and these before the one
\* dashboard request; the dashboard functions run in the order overview,
\* production, quality, equipment.  (The order is stated of each request and
\* the request after it: it is transitive.)
C5_Ordering ==
    LET healthy == Succeeded("health")
        logged_in == Succeeded("login")
        looked_up == Succeeded("database")
    IN  /\ \A k \in DOMAIN r_log : r_log[k].kind \in CreationKinds =>
              \E d \in looked_up :
                  /\ d < k
                  /\ \E a \in logged_in : a < d /\ \E h \in healthy : h < a
        /\ \A j \in 1..(Len(r_log) - 1) :
              LET this == r_log[j]
                  next == r_log[j + 1]
              IN  /\ Stage(this.kind) <= Stage(next.kind)
                  /\ this.fn <= next.fn
                  /\ (this.kind \in CreationKinds /\ this.fn = next.fn) =>
                        Rank(this.kind) <= Rank(next.kind)
                  /\ this.kind = "dashboard" => this.fn < next.fn
        /\ Keys = <<"overview", "production", "quality", "equipment">>
        /\ \A f, g \in DOMAIN Keys :
              (f < g /\ Keys[g] \in DOMAIN r_dashboards) =>
                  Keys[f] \in DOMAIN r_dashboards

\* a run that created all four dashboards
C5_Witness ==
    /\ r_pc = "idle"
    /\ r_runs # <<>>
    /\ DOMAIN r_runs[1].ret = Range(Keys)
    /\ \A key \in Range(Keys) : r_runs[1].ret[key] # None
    /\ Len(dashboards) = Len(Keys)

\* the view of the chart `name` of dashboard function f
ViewOfChart(f, name) ==
    LET c == CHOOSE c \in Range(RestDashboards[f].charts) : c.slice_name = name
    IN  c.view

\* the requests of kind `kind` that dashboard function f sent for `name`
Requests(kind, f, name) ==
    {k \in DOMAIN r_log : /\ r_log[k].kind = kind
                          /\ r_log[k].fn = f
                          /\ r_log[k].name = name}

IsCreation(e) == e.kind \in CreationKinds

\* the creation requests of the run, in the order they were sent
Creations == SelectSeq(r_log, IsCreation)

\* what a creation request asked for: kind, dashboard function, name
Subject(e) == <<e.kind, e.fn, e.name>>

\* C6: a chart request is sent only after the dataset request for the
\* chart's view returned an id in the same function call, a dashboard
\* request only after a chart request of the call returned an id; a
\* function that got no chart returns None and sends no dashboard request;
\* a function that returned has asked for each of its datasets, for each
\* chart whose dataset it got and, if it got a chart, for its dashboard,
\* and a run that got the database id calls all four functions.
C6_SkipMissing ==
    LET log == Creations
        asked == {Subject(log[k]) : k \in DOMAIN log}
        got == {Subject(log[k]) : k \in {k \in DOMAIN log : log[k].ok}}
    IN  /\ \A k \in DOMAIN log :
              /\ log[k].kind = "chart" =>
                    \E j \in 1..(k - 1) :
                        /\ log[j].ok
                        /\ Subject(log[j]) =
                              <<"dataset", log[k].fn,
                                ViewOfChart(log[k].fn, log[k].name)>>
              /\ log[k].kind = "dashboard" =>
                    \E j \in 1..(k - 1) :
                        /\ log[j].ok
                        /\ log[j].kind = "chart"
                        /\ log[j].fn = log[k].fn
        /\ \A f \in DOMAIN RestDashboards :
              LET fn == RestDashboards[f]
                  dashboard == <<"dashboard", f, fn.dashboard_title>>
                  gotChart == \E i \in DOMAIN fn.charts :
                                 <<"chart", f, fn.charts[i].slice_name>> \in got
              IN  fn.key \in DOMAIN r_dashboards =>
                    /\ ~gotChart =>
                          r_dashboards[fn.key] = None /\ dashboard \notin asked
                    /\ gotChart => dashboard \in asked
                    /\ \A i \in DOMAIN fn.dataset_views :
                          <<"dataset", f, fn.dataset_views[i]>> \in asked
                    /\ \A i \in DOMAIN fn.charts :
                          <<"dataset", f, fn.charts[i].view>> \in got
                            => <<"chart", f, fn.charts[i].slice_name>> \in asked
        /\ (r_pc = "idle" /\ r_runs # <<>> /\ Succeeded("database") # {})
            => DOMAIN r_runs[Len(r_runs)].ret = Range(Keys)

\* the first dataset of the overview failed, its chart was not asked for,
\* and the run went on to create the equipment dashboard
C6_Witness ==
    /\ r_pc = "idle"
    /\ r_runs # <<>>
    /\ \E k \in DOMAIN r_log :
          /\ r_log[k].kind = "dataset" /\ r_log[k].fn = 1 /\ ~r_log[k].ok
          /\ \E i \in DOMAIN RestDashboards[1].charts :
                /\ RestDashboards[1].charts[i].view = r_log[k].name
                /\ Requests("chart", 1,
                            RestDashboards[1].charts[i].slice_name) = {}
    /\ "equipment" \in DOMAIN r_runs[1].ret
    /\ r_runs[1].ret["equipment"] # None

ExpectedStatus(kind) == IF kind \in CreationKinds THEN 201 ELSE 200

\* the response has the success code of the step and a body that parses
Answered(e) ==
    e.resp.status = ExpectedStatus(e.kind) /\ e.resp.body = "json"

\* the value the last step returned is the id the platform issued
ReturnsIssuedId ==
    LET last == r_log[Len(r_log)]
    IN  /\ (r_ret.step = "create_dataset" /\ r_ret.value # None) =>
              /\ r_ret.value = Len(tables)
              /\ tables[r_ret.value].table_name = last.name
        /\ (r_ret.step = "create_chart" /\ r_ret.value # None) =>
              /\ r_ret.value = Len(slices)
              /\ slices[r_ret.value].slice_name = last.name
        /\ (r_ret.step = "create_dashboard" /\ r_ret.value # None) =>
              /\ r_ret.value = Len(dashboards)
              /\ dashboards[r_ret.value].dashboard_title = last.name
        /\ (r_ret.step = "get_database_id" /\ r_ret.value # None) =>
              /\ r_ret.value \in DOMAIN databases
              /\ databases[r_ret.value].database_name = MfgDbName
        /\ r_ret.step = "authenticate" =>
              (r_ret.value <=> (last.kind = "login" /\ Answered(last)))

\* a transport exception is reported as a failure, and the run is at one
\* of the control points of create_all_dashboards
NeverRaises ==
    /\ \A k \in DOMAIN r_log : r_log[k].resp = TransportError => ~r_log[k].ok
    /\ r_pc \in {"idle", "wait", "returned", "csrf", "login", "database",
                 "datasets", "datasets_done", "charts", "dashboard",
                 "summary"}
    /\ \A n \in DOMAIN r_runs : DOMAIN r_runs[n].ret \subseteq Range(Keys)

\* C7 as stated: create_dataset, create_chart, create_dashboard,
\* get_database_id and authenticate return the id (or True) EXACTLY when
\* the response has the expected status (201 for creations, 200 for login
\* and lookup) and a body that parses, and None (or False) otherwise, never
\* raising.
C7_ExactlyOnStatusAndBody ==
    /\ \A k \in DOMAIN r_log :
          r_log[k].kind \in CreationKinds \cup {"login", "database"} =>
              (r_log[k].ok <=> Answered(r_log[k]))
    /\ ReturnsIssuedId
    /\ NeverRaises

\* C7, amended: the same for create_dataset, create_chart, create_dashboard
\* and authenticate; get_database_id returns the id exactly when the
\* response has status 200, its body parses and the body lists a database
\* of the name asked for, and None otherwise.
C7_FailureAsValue ==
    /\ \A k \in DOMAIN r_log :
          /\ r_log[k].kind \in CreationKinds \cup {"login"} =>
                (r_log[k].ok <=> Answered(r_log[k]))
          /\ r_log[k].kind = "database" =>
                (r_log[k].ok <=> (Answered(r_log[k]) /\ OrmDbExists))
    /\ ReturnsIssuedId
    /\ NeverRaises

\* the lookup returned an id, a dataset request answered 201 with a body
\* that does not parse returned None, and a chart request returned an id
C7_Witness ==
    /\ \E k \in DOMAIN r_log : r_log[k].kind = "database" /\ r_log[k].ok
    /\ \E k \in DOMAIN r_log :
          /\ r_log[k].kind = "dataset"
          /\ r_log[k].resp = [status |-> 201, body |-> "garbage"]
          /\ ~r_log[k].ok
    /\ \E k \in DOMAIN r_log : r_log[k].kind = "chart" /\ r_log[k].ok

\* no request other than the health check is sent twice in a run for the
\* same object of the same dashboard function: these requests are as many
\* as the subjects they ask for
NoRequestRepeated ==
    LET others == {k \in DOMAIN r_log : r_log[k].kind # "health"}
    IN  Cardinality({Subject(r_log[k]) : k \in others}) = Cardinality(others)

Finished == r_pc = "idle" /\ r_runs # <<>>

\* C10 as stated: nothing but the health check is repeated, and EVERY
\* finished run has attempted the authentication and the database lookup
\* exactly once.
C10_ExactlyOnce ==
    /\ NoRequestRepeated
    /\ Finished =>
          /\ Cardinality(Requests("csrf", 0, "")) = 1
          /\ Cardinality(Requests("database", 0, MfgDbName)) = 1

\* C10, amended: nothing but the health check is repeated; the
\* authentication and the database lookup are each attempted at most once
\* in a run, exactly once in a finished run whose preceding step succeeded
\* (the health wait for the authentication, the login for the lookup), and
\* not at all in a run whose preceding step failed.
C10_NoRetries ==
    /\ NoRequestRepeated
    /\ Cardinality(Requests("csrf", 0, "")) <= 1
    /\ Cardinality(Requests("login", 0, "")) <= 1
    /\ Cardinality(Requests("database", 0, MfgDbName)) <= 1
    /\ Finished =>
          /\ Cardinality(Requests("csrf", 0, "")) = 1
                <=> (\E k \in DOMAIN r_log : r_log[k].kind = "health"
                                               /\ r_log[k].ok)
          /\ Cardinality(Requests("database", 0, MfgDbName)) = 1
                <=> (\E k \in DOMAIN r_log : r_log[k].kind = "login"
                                               /\ r_log[k].ok)

\* a finished run in which a chart request failed and was not sent again
C10_Witness ==
    /\ Finished
    /\ \E k \in DOMAIN r_log : r_log[k].kind = "chart" /\ ~r_log[k].ok
    /\ Cardinality(Requests("database", 0, MfgDbName)) = 1

-----------------------------------------------------------------------------
(* Properties of two runs of the REST script in sequence                   *)

\* the names the REST script gives its dashboards, charts and datasets
RestTitles == {RestDashboards[f].dashboard_title : f \in DOMAIN RestDashboards}
RestChartNames ==
    UNION {{RestDashboards[f].charts[i].slice_name :
               i \in DOMAIN RestDashboards[f].charts} :
           f \in DOMAIN RestDashboards}

\* the run got through the health wait, the login and the database lookup
GotDatabase(n) == DOMAIN r_runs[n].ret = Range(Keys)

\* C2 as stated: after two runs of create_all_dashboards in sequence, in
\* both of which the health wait, the login and the database lookup
\* succeeded, the platform holds exactly one dashboard per dashboard title,
\* exactly one chart per chart name and exactly one dataset per view name.
C2_RestIdempotent ==
    (Len(r_runs) = 2 /\ r_pc = "idle" /\ GotDatabase(1) /\ GotDatabase(2)) =>
        /\ \A t \in RestTitles : Cardinality(QueryDashboard(t)) = 1
        /\ \A c \in RestChartNames : Cardinality(QuerySlice(c)) = 1
        /\ \A v \in RestViews :
              Cardinality({i \in DOMAIN tables : tables[i].table_name = v}) = 1

-----------------------------------------------------------------------------
(* Properties of the startup hook                                          *)

\* C9: the platform never holds two connections named MfgDbName; a boot
\* that creates the connection had found none, and every later boot
\* creates none; after any number of boots in which the hook ran without
\* error exactly one such connection exists, and only the first of these
\* boots can have been the one that found none and created it.
C9_OneConnection ==
    LET boots == b_runs[1]
    IN  /\ Cardinality(QueryDatabase(MfgDbName)) <= 1
        /\ \A n \in DOMAIN boots :
              boots[n].created # None =>
                  /\ ~boots[n].found
                  /\ databases[boots[n].created].database_name = MfgDbName
                  /\ \A m \in DOMAIN boots : m > n =>
                        boots[m].created = None
        /\ (b_pc[1] = "idle" /\ boots # <<>>
              /\ \A n \in DOMAIN boots : ~boots[n].error) =>
                  /\ Cardinality(QueryDatabase(MfgDbName)) = 1
                  /\ \A n \in DOMAIN boots :
                        IF boots[n].found THEN boots[n].created = None
                        ELSE n = 1 /\ boots[n].created # None

\* three boots without error: the first created the connection, the two
\* after it found it
C9_Witness ==
    /\ Len(b_runs[1]) >= 3
    /\ \A n \in DOMAIN b_runs[1] : ~b_runs[1][n].error
    /\ b_runs[1][1].created # None
    /\ b_runs[1][2].found
    /\ b_runs[1][3].found
    /\ Cardinality(QueryDatabase(MfgDbName)) = 1

-----------------------------------------------------------------------------
(* Properties of authenticate                                              *)

\* the requests of that kind sent so far
OfKind(kind) == {k \in DOMAIN r_log : r_log[k].kind = kind}

\* the login follows the CSRF fetch, authenticate returns True exactly on a
\* login answered 200 with an access token, and the Authorization header
\* is set exactly then
LoginAfterCsrf ==
    /\ \A k \in OfKind("login") : \E j \in OfKind("csrf") : j < k
    /\ \A k \in OfKind("login") : r_log[k].ok <=> Answered(r_log[k])
    /\ r_ret.step = "authenticate" =>
          (r_ret.value <=> \E k \in OfKind("login") : Answered(r_log[k]))
    /\ "Authorization" \in r_headers
          <=> \E k \in OfKind("login") : Answered(r_log[k])

\* a CSRF fetch answered with a status other than 200 is followed by the
\* login request
LoginDespiteCsrfStatus ==
    \A j \in OfKind("csrf") :
        (r_log[j].resp.status \notin {0, 200} /\ r_pc # "login")
            => OfKind("login") # {}

\* C11 as stated: the CSRF token is fetched before the login, authenticate
\* returns True exactly when the login response has status 200 and carries
\* the access token, the Authorization header is set exactly when it returns
\* True, the X-CSRFToken header is set EXACTLY WHEN THE CSRF FETCH RETURNED
\* STATUS 200, and a CSRF fetch with another status does not keep the login
\* from being sent.
C11_CsrfHeaderOnStatus ==
    /\ LoginAfterCsrf
    /\ LoginDespiteCsrfStatus
    /\ "X-CSRFToken" \in r_headers
          <=> \E j \in OfKind("csrf") : r_log[j].resp.status = 200

\* C11, amended: the same, but the X-CSRFToken header is set exactly when
\* the CSRF fetch returned status 200 with a body that holds the token; a
\* fetch answered 200 with a body that does not parse, like a fetch that
\* raises, ends authenticate with False before any login request.
C11_Authenticate ==
    /\ LoginAfterCsrf
    /\ LoginDespiteCsrfStatus
    /\ "X-CSRFToken" \in r_headers
          <=> \E j \in OfKind("csrf") : Answered(r_log[j])
    /\ \A j \in OfKind("csrf") :
          (r_log[j].resp = TransportError
             \/ (r_log[j].resp.status = 200 /\ ~Answered(r_log[j])))
            => /\ OfKind("login") = {}
               /\ r_ret = [step |-> "authenticate", value |-> FALSE]
               /\ r_headers = {}

\* the CSRF fetch was answered 500, the login went through all the same:
\* the session has the Authorization header and no X-CSRFToken header
C11_Witness ==
    /\ \E j \in OfKind("csrf") : r_log[j].resp.status = 500
    /\ \E k \in OfKind("login") : Answered(r_log[k])
    /\ r_headers = {"Authorization"}

-----------------------------------------------------------------------------
(* Properties of the result of a REST run                                  *)

\* the dashboard function of a key of the result
FnOfKey(key) == CHOOSE f \in DOMAIN Keys : Keys[f] = key

\* C12: a finished run of create_all_dashboards returned the empty mapping
\* when the health wait, the authentication or the database lookup failed;
\* otherwise it returned a mapping of exactly the keys overview, production,
\* quality and equipment, each to None or to the id that the dashboard
\* request of its function returned; main wrote /tmp/dashboard_ids.json with
\* that mapping exactly when one of the values is an id.
C12_ResultShape ==
    Finished =>
        LET run == r_runs[Len(r_runs)]
            got == /\ Succeeded("health") # {}
                   /\ Succeeded("login") # {}
                   /\ Succeeded("database") # {}
        IN  /\ ~got => run.ret = EmptyDict
            /\ got =>
                  /\ DOMAIN run.ret = {"overview", "production", "quality",
                                       "equipment"}
                  /\ \A key \in DOMAIN run.ret :
                        LET asked == Requests("dashboard", FnOfKey(key),
                                       RestDashboards[FnOfKey(key)].dashboard_title)
                        IN  IF \E k \in asked : r_log[k].ok
                              THEN \E k \in asked : run.ret[key] = r_log[k].id
                              ELSE run.ret[key] = None
            /\ run.wrote <=> \E key \in DOMAIN run.ret : run.ret[key] # None
            /\ r_file = IF run.wrote THEN <<run.ret>> ELSE <<>>

\* a run in which the overview dashboard failed and the equipment dashboard
\* was created: the mapping holds a None and an id, and the file is written
C12_Witness ==
    /\ Finished
    /\ DOMAIN r_runs[1].ret = Range(Keys)
    /\ r_runs[1].ret["overview"] = None
    /\ r_runs[1].ret["equipment"] # None
    /\ r_file = <<r_runs[1].ret>>

-----------------------------------------------------------------------------
(* Properties of the layout the REST script posts                          *)

\* the chart of dashboard function f that is named `name`
ChartNamed(f, name) ==
    CHOOSE c \in Range(RestDashboards[f].charts) : c.slice_name = name

\* C13: in every dashboard request the entries of position_json are in
\* one-to-one correspondence with the chart requests of the same function
\* call that returned an id: the entry of a chart is keyed CHART-<id>, has
\* that key as its id, the id as chartId and the width and height configured
\* for the chart; there is no other entry.
C13_LayoutOfCreatedCharts ==
    \A k \in OfKind("dashboard") :
        LET f == r_log[k].fn
            created == {j \in OfKind("chart") :
                           j < k /\ r_log[j].fn = f /\ r_log[j].ok}
            position_json == r_log[k].json.position_json
        IN  /\ DOMAIN position_json = {ChartKey(r_log[j].id) : j \in created}
            /\ Cardinality(DOMAIN position_json) = Cardinality(created)
            /\ \A j \in created :
                  LET entry == position_json[ChartKey(r_log[j].id)]
                      chart == ChartNamed(f, r_log[j].name)
                  IN  /\ entry.id = <<"CHART-">> \o Str(r_log[j].id)
                      /\ entry.type = "CHART"
                      /\ entry.children = <<>>
                      /\ entry.meta.chartId = r_log[j].id
                      /\ entry.meta.width = chart.width
                      /\ entry.meta.height = chart.height
                      /\ slices[r_log[j].id].slice_name = r_log[j].name

\* a dashboard request of a call in which one chart request failed and at
\* least two returned an id
C13_Witness ==
    \E k \in OfKind("dashboard") :
        /\ Cardinality(DOMAIN r_log[k].json.position_json) >= 2
        /\ \E j \in OfKind("chart") :
              j < k /\ r_log[j].fn = r_log[k].fn /\ ~r_log[j].ok

-----------------------------------------------------------------------------
(* Properties of the layout the ORM script stores                          *)

\* the nodes that list n among their children
Parents(position, n) ==
    {m \in DOMAIN position : n \in Range(position[m].children)}

\* the nodes reached from the nodes of `from` along children
RECURSIVE Reachable(_, _)
Reachable(position, from) ==
    LET step == from \cup UNION {Range(position[m].children) : m \in from}
    IN  IF step = from THEN from ELSE Reachable(position, step)

\* the sum of the widths of the nodes listed in `children`
RECURSIVE WidthOf(_, _)
WidthOf(position, children) ==
    IF children = <<>> THEN 0
    ELSE position[Head(children)].meta.width
           + WidthOf(position, Tail(children))

\* the dashboards the ORM runs have committed
OrmCreatedDashboards ==
    LET committed == UNION {UNION {o_runs[p][r].committed :
                                     r \in DOMAIN o_runs[p]} : p \in Procs}
    IN  {c[2] : c \in {c \in committed : c[1] = "dashboard"}}

WellFormedLayout(d) ==
    LET position == d.position_json
        nodes == DOMAIN position
        chartNodes == {n \in nodes : position[n].type = "CHART"}
        NameOf(n) == slices[position[n].meta.chartId].slice_name
    IN  /\ "ROOT_ID" \in nodes
        /\ \A n \in nodes :
              /\ position[n].id = n
              /\ Range(position[n].children) \subseteq nodes
              /\ Cardinality(Range(position[n].children))
                    = Len(position[n].children)
        /\ Parents(position, "ROOT_ID") = {}
        /\ \A n \in nodes \ {"ROOT_ID"} :
              Cardinality(Parents(position, n)) = 1
        /\ Reachable(position, {"ROOT_ID"}) = nodes
        /\ chartNodes = {"CHART-prod", "CHART-oee", "CHART-equipment"}
        /\ \A n \in chartNodes : position[n].meta.chartId \in DOMAIN slices
        /\ NameOf("CHART-prod") = "Production Trend - 24 Hours"
        /\ NameOf("CHART-oee") = "Current OEE"
        /\ NameOf("CHART-equipment") = "Equipment Performance"
        /\ {position[n].meta.chartId : n \in chartNodes} = Range(d.slices)
        /\ Cardinality(Range(d.slices)) = 3
        /\ \A n \in nodes :
              position[n].type = "ROW"
                 => WidthOf(position, position[n].children) = 12

\* C14: the layout of every dashboard that create_manufacturing_dashboard
\* has created is a well-formed tree: every child listed by a node is a key
\* of the layout, every node is reached from ROOT_ID, every node but the
\* root has exactly one parent, the three CHART nodes carry the ids of the
\* production, the OEE and the equipment chart in this order, the chartIds
\* of the layout are exactly the charts attached as slices, and the widths
\* of the charts of each row sum to 12.
C14_LayoutWellFormed ==
    \A id \in OrmCreatedDashboards :
        /\ id \in DOMAIN dashboards
        /\ WellFormedLayout(dashboards[id])

\* a run created the dashboard on a platform that had the OEE chart already:
\* the layout refers to a chart the run reused and to charts it created
C14_Witness ==
    \E id \in OrmCreatedDashboards :
        /\ \E i \in 1..Len(SeedRows(seed, "slice")) :
              i \in Range(dashboards[id].slices)
        /\ \E i \in Range(dashboards[id].slices) :
              i > Len(SeedRows(seed, "slice"))

-----------------------------------------------------------------------------
(* Lookup-or-create of charts and datasets in the ORM script               *)

\* the charts of that name
ChartsNamed(name) == {i \in DOMAIN slices : slices[i].slice_name = name}

\* the datasets of that view in that connection
DatasetsOf(view_name, database_id) ==
    {i \in DOMAIN tables : tables[i] = [table_name |-> view_name,
                                         database_id |-> database_id]}

\* tbl2 is tbl, or tbl with one row appended
GrowsByAtMostOne(tbl, tbl2) ==
    /\ Len(tbl2) \in {Len(tbl), Len(tbl) + 1}
    /\ SubSeq(tbl2, 1, Len(tbl)) = tbl

\* a step of a run at create_or_get_slice
SliceFrame(p) ==
    LET n == o_i[p]
        name == OrmCharts[n].name
        existing == ChartsNamed(name)
    IN  /\ (o_pc[p] = "lookup_slice" /\ existing # {}) =>
              /\ platformVars' = platformVars
              /\ o_session' = o_session
              /\ o_committed' = o_committed
              /\ o_pc'[p] # "commit_slice"
              /\ o_charts'[p] # o_charts[p] =>
                    \E c \in existing : o_charts'[p] = Append(o_charts[p], c)
        /\ (o_pc[p] = "lookup_slice" /\ existing = {}) =>
              /\ platformVars' = platformVars
              /\ o_charts' = o_charts
        /\ (o_pc[p] = "commit_slice" /\ slices' # slices) =>
              /\ existing = {}
              /\ slices' = Append(slices,
                              [slice_name |-> name,
                               viz_type |-> OrmCharts[n].viz_type,
                               datasource_type |-> "table",
                               datasource_id |-> o_tables[p][OrmCharts[n].view]])
              /\ o_charts'[p] = Append(o_charts[p], Len(slices'))
              /\ o_committed'[p] = o_committed[p] \cup {<<"slice", Len(slices')>>}
              /\ o_session' = o_session

\* a step of a run at the dataset loop
TableFrame(p) ==
    LET view_name == views[o_i[p]]
        existing == DatasetsOf(view_name, o_db[p])
    IN  /\ (o_pc[p] = "lookup_table" /\ existing # {}) =>
              /\ platformVars' = platformVars
              /\ o_session' = o_session
              /\ o_committed' = o_committed
              /\ o_pc'[p] # "commit_table"
              /\ o_tables'[p] # o_tables[p] =>
                    \E t \in existing :
                        o_tables'[p] = [o_tables[p] EXCEPT ![view_name] = t]
        /\ (o_pc[p] = "lookup_table" /\ existing = {}) =>
              /\ platformVars' = platformVars
              /\ o_tables' = o_tables
        /\ (o_pc[p] = "commit_table" /\ tables' # tables) =>
              /\ existing = {}
              /\ tables' = Append(tables, [table_name |-> view_name,
                                           database_id |-> o_db[p]])
              /\ o_tables'[p] = [o_tables[p] EXCEPT ![view_name] = Len(tables')]
              /\ o_committed'[p] = o_committed[p] \cup {<<"table", Len(tables')>>}
              /\ o_session' = o_session

LookupOrCreate ==
    /\ GrowsByAtMostOne(slices, slices')
    /\ GrowsByAtMostOne(tables, tables')
    /\ slices' # slices => \E p \in Procs : o_pc[p] = "commit_slice"
    /\ tables' # tables => \E p \in Procs : o_pc[p] = "commit_table"
    /\ \A p \in Procs : SliceFrame(p) /\ TableFrame(p)

\* C15: create_or_get_slice and the dataset loop look up before they create.
\* When a chart of the requested name exists, one such chart is the result
\* and no row is added, committed or modified, even when its viz_type or
\* datasource differ from the requested ones; only when there is none is a
\* chart added, exactly one, with the requested attributes, and committed.
\* The same holds of the datasets, looked up by view name and database id.
\* No row that exists is ever modified or removed.
C15_LookupOrCreate == [][LookupOrCreate]_vars

\* a run went through on a platform that had a chart of a requested name
\* with another viz_type and a dataset of a requested view: it reused both
\* and left the chart as it was
C15_Witness ==
    /\ Len(o_runs[1]) >= 1
    /\ o_runs[1][1].ret \notin {None, Raised}
    /\ \E n \in DOMAIN OrmCharts :
          /\ Cardinality(ChartsNamed(OrmCharts[n].name)) = 1
          /\ \E i \in ChartsNamed(OrmCharts[n].name) :
                /\ slices[i].viz_type # OrmCharts[n].viz_type
                /\ <<"slice", i>> \notin o_runs[1][1].committed
                /\ i \in Range(dashboards[o_runs[1][1].ret].slices)
    /\ \E c \in o_runs[1][1].committed : c[1] = "slice"
    /\ \E i \in DOMAIN tables : <<"table", i>> \notin o_runs[1][1].committed
    /\ \E c \in o_runs[1][1].committed : c[1] = "table"

-----------------------------------------------------------------------------
(* The ORM script on a platform that has the dashboard                     *)

\* the platform started with a dashboard titled Manufacturing Overview
SeedHasDashboard ==
    \E i \in DOMAIN seed : SeedKinds[seed[i]][1] = "dashboard"

\* C16: when a dashboard titled Manufacturing Overview exists, a run of the
\* ORM script returns the id of that dashboard and changes nothing: it adds
\* no dashboard, leaves the existing one as it is, and creates no dataset
\* and no chart.
C16_ExistingDashboardChangesNothing ==
    SeedHasDashboard =>
        /\ PlatformUntouched
        /\ \A p \in Procs : \A r \in DOMAIN o_runs[p] :
              /\ o_runs[p][r].committed = {}
              /\ (Completed(o_runs[p][r]) /\ o_runs[p][r].ret # None)
                    => o_runs[p][r].ret \in 1..Len(SeedRows(seed, "dashboard"))

-----------------------------------------------------------------------------
(* Dataset requests of one REST run                                        *)

\* every request of the run was answered with its success, but for the
\* dataset requests the platform refused
OnlyDatasetsRefused ==
    \A k \in DOMAIN r_log :
        r_log[k].ok \/ (r_log[k].kind = "dataset" /\ r_log[k].resp = Refused)

\* C17: within one run of the REST script a dataset request is sent at most
\* once per view over the four dashboard functions, so that a run against a
\* platform that refuses a second dataset of a registered view, and answers
\* every other request with its success, still ends with the four
\* dashboards.
C17_OneDatasetRequestPerView ==
    /\ \A j, k \in OfKind("dataset") :
          j # k => r_log[j].name # r_log[k].name
    /\ (Finished /\ unique_datasets /\ OnlyDatasetsRefused
          /\ Succeeded("database") # {})
          => \A key \in Range(Keys) : r_runs[Len(r_runs)].ret[key] # None

-----------------------------------------------------------------------------
(* Two processes against one platform                                      *)

\* C18: when two platform processes run init_manufacturing_database at the
\* same time against one metadata database, then under every interleaving
\* of their lookups and commits at most one connection named MfgDbName
\* exists once both hooks have returned.
C18_ConcurrentBoots ==
    (\A p \in Procs : b_pc[p] = "idle" /\ Len(b_runs[p]) = 1)
        => Cardinality({i \in DOMAIN databases :
                           databases[i].database_name = MfgDbName}) <= 1

\* C19: when two invocations of create_manufacturing_dashboard interleave
\* against one platform, then under every interleaving of their lookups and
\* commits there is, once both have returned, at most one dashboard of the
\* title, at most one chart of each chart name and at most one dataset of
\* each view.
C19_ConcurrentOrmRuns ==
    (\A p \in Procs : o_pc[p] = "idle" /\ Len(o_runs[p]) = 1)
        => /\ Cardinality({i \in DOMAIN dashboards :
                  dashboards[i].dashboard_title = dashboard_title}) <= 1
           /\ \A n \in DOMAIN OrmCharts :
                 Cardinality(ChartsNamed(OrmCharts[n].name)) <= 1
           /\ \A v \in Range(views) :
                 Cardinality({i \in DOMAIN tables :
                                 tables[i].table_name = v}) <= 1

-----------------------------------------------------------------------------
(* The startup hook: exceptions and existing connections                   *)

\* the connections of the name the hook looks up
Connections ==
    {i \in DOMAIN databases : databases[i].database_name = MfgDbName}

\* a step keeps every connection as it is; one is added only by a hook at
\* its commit that had found none; a hook that finds one adds nothing
ExistingConnectionKept ==
    /\ GrowsByAtMostOne(databases, databases')
    /\ databases' # databases =>
          /\ Connections = {}
          /\ \E p \in Procs : b_pc[p] = "commit"
          /\ databases'[Len(databases')].database_name = MfgDbName
    /\ \A p \in Procs :
          (b_pc[p] = "lookup" /\ Connections # {}) =>
              /\ platformVars' = platformVars
              /\ b_session' = b_session
              /\ b_pc'[p] # "commit"

\* every hook that has returned: one that found the connection created
\* none, one that raised created none
HookOutcomes ==
    \A p \in Procs : \A n \in DOMAIN b_runs[p] :
        (b_runs[p][n].found \/ b_runs[p][n].error)
            => b_runs[p][n].created = None

\* C20: the startup hook never blocks the boot and never alters an existing
\* connection: an exception raised by the lookup, the add or the commit is
\* caught inside init_manufacturing_database, so that every init_app that
\* started completes; when a connection named MfgDbName exists the hook
\* adds nothing, commits nothing and leaves the URI and the flags of that
\* connection as they are, whatever the environment variables say.
C20_HookNeverBlocksNorAlters ==
    /\ [][ExistingConnectionKept]_vars
    /\ []HookOutcomes
    /\ \A p \in Procs : (b_pc[p] # "idle") ~> (b_pc[p] = "idle")

\* a boot whose hook raised has completed, and a boot after it found the
\* connection made by hand, whose URI is not the one of its environment,
\* and left it as it was
C20_Witness ==
    /\ b_pc[1] = "idle"
    /\ Len(b_runs[1]) >= 2
    /\ b_runs[1][1].error
    /\ b_runs[1][Len(b_runs[1])].found
    /\ \E i \in Connections :
          /\ databases[i] = MfgDatabase
          /\ databases[i].sqlalchemy_uri # ManufacturingUri(b_env[1])

=============================================================================
